---- MODULE Spec2Model ----
(***************************************************************************)
(* KanMind backend: boards, tasks and comments with their ownership and    *)
(* membership based access rules (boards_app, task_app).  Every request    *)
(* handler is one atomic action on the persisted rows; `last` records the  *)
(* most recent request (operation, caller, target) and its HTTP outcome.   *)
(* The callers of boards_app and task_app are three registered users;     *)
(* user_auth's registration is modelled on its own table `accounts`.       *)
(* Requests run one at a time except in the specifications that split a    *)
(* handler at its database statements (SpecRegister, SpecConcurrent).      *)
(***************************************************************************)
EXTENDS Integers, FiniteSets, Sequences, Bags, TLC

VARIABLES boards, tasks, comments, nextBoardId, nextTaskId, nextCommentId, last,
          accounts,   \* user_auth: the rows of the User table
          regs,       \* registration requests between is_valid() and save()
          updates     \* board updates between their database statements

vars == <<boards, tasks, comments, nextBoardId, nextTaskId, nextCommentId, last,
          accounts, regs, updates>>

\* what the board, task and comment handlers never touch
authVars == <<accounts, regs>>

(* ---- bounds of the model ---- *)
MaxBoards == 2
MaxTasks == 1
MaxComments == 1
MaxCascadeTasks == 2
MaxCascadeComments == 2
MaxSharedBoards == 1    \* boards of SpecComments and of SpecConcurrent

(* ---- users and request inputs ---- *)
Users == {"A", "B", "C"}
Null == "null"          \* JSON null / SQL NULL for assignee, reviewer
Absent == "absent"      \* field not present in the request body
UnknownUser == "X"      \* a primary key that resolves to no User row
AbsentId == 0           \* board id not present in the request body

Titles == {"t1", "t2"}
Statuses == {"to-do", "done"}
MemberIdLists == {{}, {"B"}, {"A", "B"}, {UnknownUser}}

BoardIds == 1..MaxBoards
TaskIds == 1..MaxTasks
CommentIds == 1..MaxComments
CascadeTaskIds == 1..MaxCascadeTasks
CascadeCommentIds == 1..MaxCascadeComments

(* ---- HTTP outcomes ---- *)
OK == "OK"                        \* 200 / 201 / 204
InvalidInput == "InvalidInput"    \* 400 ValidationError
AccessDenied == "AccessDenied"    \* 403 PermissionDenied
NotFound == "NotFound"            \* 404 NotFound / Http404
ServerError == "ServerError"      \* 500 unhandled exception

Response(op, user, id, sub, result) ==
    [op |-> op, user |-> user, id |-> id, sub |-> sub, result |-> result]

Init ==
    /\ boards = <<>>
    /\ tasks = <<>>
    /\ comments = <<>>
    /\ nextBoardId = 1
    /\ nextTaskId = 1
    /\ nextCommentId = 1
    /\ last = Response("init", Null, 0, 0, OK)
    /\ accounts = <<>>
    /\ regs = <<>>
    /\ updates = <<>>

Without(f, ids) == [x \in DOMAIN f \ ids |-> f[x]]

(* ======================= boards_app ======================= *)

\* rows of Board LEFT JOIN board_members that satisfy Q(owner=user) | Q(members=user)
BoardJoinRows(user) ==
    LET hit(b) == boards[b].owner = user \/ user \in boards[b].members
        rows(b) == IF boards[b].owner = user
                   THEN (IF boards[b].members = {} THEN 1
                         ELSE Cardinality(boards[b].members))
                   ELSE 1
    IN [b \in {x \in DOMAIN boards : hit(x)} |-> rows(b)]

\* faulty variant: the queryset without .distinct()
DistinctDropped(bag) == bag

Distinct(bag) == [x \in DOMAIN bag |-> 1]

\* BoardsView.get_queryset / BoardDetailView.get_queryset
BoardQueryset(user) == Distinct(BoardJoinRows(user))

\* BoardSerializer: every pk of `members` must resolve to a User
MembersValid(ids) == ids \subseteq Users

\* POST /api/boards/
BoardCreate(user, title, ids) ==
    /\ IF ~MembersValid(ids)
       THEN /\ last' = Response("board_create", user, 0, 0, InvalidInput)
            /\ UNCHANGED <<boards, nextBoardId>>
       ELSE /\ boards' = (nextBoardId :> [title |-> title, owner |-> user, members |-> ids])
                         @@ boards
            /\ nextBoardId' = nextBoardId + 1
            /\ last' = Response("board_create", user, nextBoardId, 0, OK)
    /\ UNCHANGED <<tasks, comments, nextTaskId, nextCommentId, authVars, updates>>

\* faulty variant: get_object without the owner test for writes
BoardGetObjectAnyMember(user, b, write) ==
    IF ~BagIn(b, BoardQueryset(user)) THEN AccessDenied ELSE OK

\* BoardDetailView.get_object: a board outside the caller's queryset raises Http404,
\* which the handler turns into PermissionDenied; writes need the owner.
BoardGetObject(user, b, write) ==
    IF ~BagIn(b, BoardQueryset(user)) THEN AccessDenied
    ELSE IF write /\ boards[b].owner # user THEN AccessDenied
    ELSE OK

\* GET /api/boards/<pk>/
BoardGetResult(user, b) == BoardGetObject(user, b, FALSE)

\* faulty variant: the member ids are merged into the stored member set
BoardSerializerUpdateMerging(board, p) ==
    [board EXCEPT !.title = IF p.title = Absent THEN @ ELSE p.title,
                  !.members = IF p.hasMembers THEN @ \cup p.member_ids ELSE @]

\* BoardDetailSerializer.update
BoardSerializerUpdate(board, p) ==
    [board EXCEPT !.title = IF p.title = Absent THEN @ ELSE p.title,
                  !.members = IF p.hasMembers THEN p.member_ids ELSE @]

\* PATCH (partial) and PUT /api/boards/<pk>/
BoardUpdate(user, b, partial, p) ==
    LET access == BoardGetObject(user, b, TRUE)
        result == IF access # OK THEN access
                  ELSE IF ~partial /\ p.title = Absent THEN InvalidInput
                  ELSE IF p.hasMembers /\ ~MembersValid(p.member_ids) THEN InvalidInput
                  ELSE OK
    IN /\ last' = Response("board_update", user, b, 0, result)
       /\ boards' = IF result = OK
                    THEN [boards EXCEPT ![b] = BoardSerializerUpdate(boards[b], p)]
                    ELSE boards
       /\ UNCHANGED <<tasks, comments, nextBoardId, nextTaskId, nextCommentId, authVars, updates>>

(* The same update, one database statement at a time.  Nothing in the handler  *)
(* opens a transaction around its statements, so those of two requests may     *)
(* alternate; without overlap the three steps amount to BoardUpdate.           *)

\* PATCH / PUT /api/boards/<pk>/ : outcome of get_object and is_valid
BoardUpdateResult(user, b, partial, p) ==
    LET access == BoardGetObject(user, b, TRUE)
    IN IF access # OK THEN access
       ELSE IF ~partial /\ p.title = Absent THEN InvalidInput
       ELSE IF p.hasMembers /\ ~MembersValid(p.member_ids) THEN InvalidInput
       ELSE OK

\* get_object and is_valid of request r: the board row is read into `instance`;
\* a refused request is answered at once
BoardUpdateBegin(r, user, b, partial, p) ==
    LET result == BoardUpdateResult(user, b, partial, p)
    IN /\ r \notin DOMAIN updates
       /\ IF result = OK
          THEN /\ updates' = (r :> [user |-> user, board |-> b, body |-> p,
                                    instance |-> boards[b], pc |-> "save"]) @@ updates
               /\ last' = Response("board_update_begin", user, b, r, OK)
          ELSE /\ last' = Response("board_update", user, b, r, result)
               /\ UNCHANGED updates
       /\ UNCHANGED <<boards, tasks, comments, nextBoardId, nextTaskId, nextCommentId,
                      authVars>>

\* super().update(instance, validated_data): the title of the body is set on the
\* instance and instance.save() writes the instance's columns (title, owner)
BoardUpdateSave(r) ==
    /\ r \in DOMAIN updates /\ updates[r].pc = "save"
    /\ LET u == updates[r]
           title == IF u.body.title = Absent THEN u.instance.title ELSE u.body.title
       IN /\ boards' = [boards EXCEPT ![u.board].title = title,
                                      ![u.board].owner = u.instance.owner]
          /\ updates' = [updates EXCEPT ![r].pc = "members"]
          /\ last' = Response("board_update_save", u.user, u.board, r, OK)
    /\ UNCHANGED <<tasks, comments, nextBoardId, nextTaskId, nextCommentId, authVars>>

\* instance.members.set(members) when the body has a member list, then the 200
BoardUpdateSetMembers(r) ==
    /\ r \in DOMAIN updates /\ updates[r].pc = "members"
    /\ LET u == updates[r]
       IN /\ boards' = IF u.body.hasMembers
                       THEN [boards EXCEPT ![u.board].members = u.body.member_ids]
                       ELSE boards
          /\ updates' = [updates EXCEPT ![r].pc = "done"]
          /\ last' = Response("board_update", u.user, u.board, r, OK)
    /\ UNCHANGED <<tasks, comments, nextBoardId, nextTaskId, nextCommentId, authVars>>

\* Task.board is on_delete=CASCADE
TasksOfBoard(b) == {t \in DOMAIN tasks : tasks[t].board = b}

\* faulty variant: Comment.task without the cascade
CommentsOfTasksKept(ts) == {}

\* Comment.task is on_delete=CASCADE
CommentsOfTasks(ts) == {c \in DOMAIN comments : comments[c].task \in ts}

\* BoardDetailView.perform_destroy
BoardPerformDestroy(user, b) ==
    IF boards[b].owner # user THEN AccessDenied ELSE OK

\* DELETE /api/boards/<pk>/
BoardDelete(user, b) ==
    LET access == BoardGetObject(user, b, TRUE)
        result == IF access # OK THEN access ELSE BoardPerformDestroy(user, b)
    IN /\ last' = Response("board_delete", user, b, 0, result)
       /\ IF result = OK
          THEN /\ boards' = Without(boards, {b})
               /\ tasks' = Without(tasks, TasksOfBoard(b))
               /\ comments' = Without(comments, CommentsOfTasks(TasksOfBoard(b)))
          ELSE UNCHANGED <<boards, tasks, comments>>
       /\ UNCHANGED <<nextBoardId, nextTaskId, nextCommentId, authVars, updates>>

(* ======================= task_app ======================= *)

\* TasksView.get_queryset: Q(owner) | Q(assignee) | Q(reviewer) over plain foreign keys
TaskFilterRows(user) ==
    [t \in {x \in DOMAIN tasks : \/ tasks[x].owner = user
                                 \/ tasks[x].assignee = user
                                 \/ tasks[x].reviewer = user} |-> 1]

TaskQueryset(user) == Distinct(TaskFilterRows(user))

\* TaskSerializer field validation (to_internal_value): `board` is the first writable
\* field and BoardPrimaryKeyField raises NotFound at once; the other fields' errors
\* are collected into one ValidationError.
TaskSerializerFields(p, partial) ==
    LET userBad(x) == (x = Absent /\ ~partial) \/ x = UnknownUser
    IN IF p.board # AbsentId /\ p.board \notin DOMAIN boards THEN NotFound
       ELSE IF \/ p.board = AbsentId /\ ~partial
               \/ userBad(p.assignee)
               \/ userBad(p.reviewer)
               \/ p.status = Absent /\ ~partial
            THEN InvalidInput
       ELSE OK

\* faulty variant: validate without the assignee test
TaskSerializerValidateNoAssignee(user, p) ==
    IF p.board = AbsentId THEN ServerError
    ELSE LET board == boards[p.board]
         IN IF user \notin board.members /\ board.owner # user THEN AccessDenied
            ELSE IF p.reviewer \in Users /\ p.reviewer \notin board.members THEN AccessDenied
            ELSE OK

\* faulty variant: validate without the reviewer test
TaskSerializerValidateNoReviewer(user, p) ==
    IF p.board = AbsentId THEN ServerError
    ELSE LET board == boards[p.board]
         IN IF user \notin board.members /\ board.owner # user THEN AccessDenied
            ELSE IF p.assignee \in Users /\ p.assignee \notin board.members THEN AccessDenied
            ELSE OK

\* TaskSerializer.validate(attrs): attrs.get("board") is None when the body has no
\* board, and board.members then raises AttributeError (an unhandled 500).
TaskSerializerValidate(user, p) ==
    IF p.board = AbsentId THEN ServerError
    ELSE LET board == boards[p.board]
         IN IF user \notin board.members /\ board.owner # user THEN AccessDenied
            ELSE IF p.assignee \in Users /\ p.assignee \notin board.members THEN AccessDenied
            ELSE IF p.reviewer \in Users /\ p.reviewer \notin board.members THEN AccessDenied
            ELSE OK

\* TasksView.perform_create
TaskPerformCreate(user, p) ==
    IF user \notin boards[p.board].members THEN AccessDenied ELSE OK

\* POST /api/tasks/ : outcome
TaskCreateResult(user, p) ==
    LET fields == TaskSerializerFields(p, FALSE)
    IN IF fields # OK THEN fields
       ELSE LET valid == TaskSerializerValidate(user, p)
            IN IF valid # OK THEN valid ELSE TaskPerformCreate(user, p)

\* POST /api/tasks/ (the 201 body is rendered from the saved row and changes nothing)
TaskCreate(user, p) ==
    LET result == TaskCreateResult(user, p)
    IN /\ IF result = OK
          THEN /\ tasks' = (nextTaskId :> [board |-> p.board, owner |-> user,
                                           assignee |-> p.assignee, reviewer |-> p.reviewer,
                                           status |-> p.status]) @@ tasks
               /\ nextTaskId' = nextTaskId + 1
               /\ last' = Response("task_create", user, p.board, nextTaskId, OK)
          ELSE /\ last' = Response("task_create", user, p.board, 0, result)
               /\ UNCHANGED <<tasks, nextTaskId>>
       /\ UNCHANGED <<boards, comments, nextBoardId, nextCommentId, authVars, updates>>

\* faulty variant: the role test without the reviewer
HasTaskRoleNoReviewer(user, task) ==
    task.owner = user \/ task.assignee = user

\* the role test shared by TaskDetailView and the comment views
HasTaskRole(user, task) ==
    task.owner = user \/ task.assignee = user \/ task.reviewer = user

\* faulty variant: get_object without the role test
TaskGetObjectAnyUser(user, t) ==
    IF t \notin DOMAIN tasks THEN NotFound ELSE OK

\* TaskDetailView.get_object
TaskGetObject(user, t) ==
    IF t \notin DOMAIN tasks THEN NotFound
    ELSE IF ~HasTaskRole(user, tasks[t]) THEN AccessDenied
    ELSE OK

\* GET /api/tasks/<task_id>/ : outcome
TaskGetResult(user, t) == TaskGetObject(user, t)

\* GET /api/tasks/<task_id>/
TaskGet(user, t) ==
    /\ last' = Response("task_get", user, t, 0, TaskGetResult(user, t))
    /\ UNCHANGED <<boards, tasks, comments, nextBoardId, nextTaskId, nextCommentId, authVars, updates>>

\* PATCH / PUT /api/tasks/<task_id>/ : outcome
TaskUpdateResult(user, t, partial, p) ==
    LET access == TaskGetObject(user, t)
    IN IF access # OK THEN access
       ELSE LET fields == TaskSerializerFields(p, partial)
            IN IF fields # OK THEN fields ELSE TaskSerializerValidate(user, p)

\* ModelSerializer.update: every attribute present in validated_data is assigned
TaskSerializerUpdate(task, p) ==
    [task EXCEPT !.board = IF p.board = AbsentId THEN @ ELSE p.board,
                 !.assignee = IF p.assignee = Absent THEN @ ELSE p.assignee,
                 !.reviewer = IF p.reviewer = Absent THEN @ ELSE p.reviewer,
                 !.status = IF p.status = Absent THEN @ ELSE p.status]

\* PATCH (partial) and PUT /api/tasks/<task_id>/
TaskUpdate(user, t, partial, p) ==
    LET result == TaskUpdateResult(user, t, partial, p)
    IN /\ last' = Response("task_update", user, t, 0, result)
       /\ tasks' = IF result = OK
                   THEN [tasks EXCEPT ![t] = TaskSerializerUpdate(tasks[t], p)]
                   ELSE tasks
       /\ UNCHANGED <<boards, comments, nextBoardId, nextTaskId, nextCommentId, authVars, updates>>

\* DELETE /api/tasks/<task_id>/
TaskDelete(user, t) ==
    LET result == TaskGetObject(user, t)
    IN /\ last' = Response("task_delete", user, t, 0, result)
       /\ IF result = OK
          THEN /\ tasks' = Without(tasks, {t})
               /\ comments' = Without(comments, CommentsOfTasks({t}))
          ELSE UNCHANGED <<tasks, comments>>
       /\ UNCHANGED <<boards, nextBoardId, nextTaskId, nextCommentId, authVars, updates>>

(* ---- comments ---- *)

RECURSIVE LStrip(_)
LStrip(s) == IF s # <<>> /\ Head(s) = " " THEN LStrip(Tail(s)) ELSE s

RECURSIVE RStrip(_)
RStrip(s) == IF s # <<>> /\ s[Len(s)] = " " THEN RStrip(SubSeq(s, 1, Len(s) - 1)) ELSE s

\* str.strip() on a body given as a sequence of characters
Strip(s) == RStrip(LStrip(s))

\* CommentSerializer field validation: `content` is required, trimmed, and not blank
CommentSerializerFields(body) ==
    IF ~body.has THEN InvalidInput
    ELSE IF Strip(body.content) = <<>> THEN InvalidInput
    ELSE OK

\* faulty variant: perform_create without the role test
CommentPerformCreateAnyUser(user, t, body) ==
    IF t \notin DOMAIN tasks THEN NotFound
    ELSE IF ~body.has \/ body.content = <<>> \/ Strip(body.content) = <<>> THEN InvalidInput
    ELSE OK

\* TaskCommentsView.perform_create
CommentPerformCreate(user, t, body) ==
    IF t \notin DOMAIN tasks THEN NotFound
    ELSE IF ~HasTaskRole(user, tasks[t]) THEN AccessDenied
    ELSE IF ~body.has \/ body.content = <<>> \/ Strip(body.content) = <<>> THEN InvalidInput
    ELSE OK

\* POST /api/tasks/<task_id>/comments/ : outcome
CommentCreateResult(user, t, body) ==
    LET fields == CommentSerializerFields(body)
    IN IF fields # OK THEN fields ELSE CommentPerformCreate(user, t, body)

\* POST /api/tasks/<task_id>/comments/
CommentCreate(user, t, body) ==
    LET result == CommentCreateResult(user, t, body)
    IN /\ IF result = OK
          THEN /\ comments' = (nextCommentId :> [task |-> t, author |-> user,
                                                 content |-> Strip(body.content)]) @@ comments
               /\ nextCommentId' = nextCommentId + 1
               /\ last' = Response("comment_create", user, t, nextCommentId, OK)
          ELSE /\ last' = Response("comment_create", user, t, 0, result)
               /\ UNCHANGED <<comments, nextCommentId>>
       /\ UNCHANGED <<boards, tasks, nextBoardId, nextTaskId, authVars, updates>>

\* Comment.created_at (auto_now_add): the insert time, which grows with the id
\* while requests run one at a time
CreatedAt(c) == c

\* order_by("created_at") over a set of comment ids
RECURSIVE OrderByCreatedAt(_)
OrderByCreatedAt(ids) ==
    IF ids = {} THEN <<>>
    ELSE LET first == CHOOSE c \in ids : \A d \in ids : CreatedAt(c) <= CreatedAt(d)
         IN <<first>> \o OrderByCreatedAt(ids \ {first})

\* Comment.objects.filter(task=task).order_by("created_at")
CommentQueryset(t) == OrderByCreatedAt({c \in DOMAIN comments : comments[c].task = t})

\* TaskCommentsView.get_queryset: an empty queryset raises NotFound
CommentListResult(user, t) ==
    IF t \notin DOMAIN tasks THEN NotFound
    ELSE IF ~HasTaskRole(user, tasks[t]) THEN AccessDenied
    ELSE IF CommentQueryset(t) = <<>> THEN NotFound
    ELSE OK

\* the comment ids in the 200 body of the list, in the order returned
CommentListBody(user, t) ==
    IF CommentListResult(user, t) = OK THEN CommentQueryset(t) ELSE <<>>

\* GET /api/tasks/<task_id>/comments/
CommentList(user, t) ==
    /\ last' = Response("comment_list", user, t, 0, CommentListResult(user, t))
    /\ UNCHANGED <<boards, tasks, comments, nextBoardId, nextTaskId, nextCommentId,
                   authVars, updates>>

\* faulty variant: the comment is looked up by its id alone
CommentGetObjectAnyTask(user, t, c) ==
    IF t \notin DOMAIN tasks THEN NotFound
    ELSE IF c \notin DOMAIN comments THEN NotFound
    ELSE IF ~(comments[c].author = user \/ tasks[t].owner = user) THEN AccessDenied
    ELSE OK

\* TaskCommentDetailView.get_object
CommentGetObject(user, t, c) ==
    IF t \notin DOMAIN tasks THEN NotFound
    ELSE IF c \notin DOMAIN comments \/ comments[c].task # t THEN NotFound
    ELSE IF ~(comments[c].author = user \/ tasks[t].owner = user) THEN AccessDenied
    ELSE OK

\* DELETE /api/tasks/<task_id>/comments/<comment_id>/
CommentDelete(user, t, c) ==
    LET result == CommentGetObject(user, t, c)
    IN /\ last' = Response("comment_delete", user, t, c, result)
       /\ comments' = IF result = OK THEN Without(comments, {c}) ELSE comments
       /\ UNCHANGED <<boards, tasks, nextBoardId, nextTaskId, nextCommentId, authVars, updates>>

(* ---- user_auth: registration ---- *)

\* User.objects.filter(email=...).exists()
EmailExists(email) == \E i \in DOMAIN accounts : accounts[i].email = email

\* the unique constraint of auth.User.username, which `fullname` is stored in
UsernameExists(name) == \E i \in DOMAIN accounts : accounts[i].username = name

\* RegistrationSerializer field validation: fullname, password and repeated_password
\* are required; email comes from auth.User.email (blank=True) and is optional
RegistrationSerializerFields(body) ==
    IF body.fullname = Absent \/ body.password = Absent \/ body.repeated_password = Absent
    THEN InvalidInput
    ELSE OK

\* RegistrationSerializer.validate: data['email'] is a KeyError (an unhandled 500)
\* when the body has no email
RegistrationSerializerValidate(body) ==
    IF body.email = Absent THEN ServerError
    ELSE IF EmailExists(body.email) THEN InvalidInput
    ELSE IF body.password # body.repeated_password THEN InvalidInput
    ELSE OK

\* serializer.is_valid() of RegistrationView.post
RegistrationIsValid(body) ==
    LET fields == RegistrationSerializerFields(body)
    IN IF fields # OK THEN fields ELSE RegistrationSerializerValidate(body)

\* POST /api/auth/register/ up to serializer.is_valid(): a refused body is answered
\* at once, an accepted one is held by request r until its save()
RegisterBegin(r, body) ==
    LET result == RegistrationIsValid(body)
    IN /\ r \notin DOMAIN regs
       /\ IF result = OK
          THEN /\ regs' = (r :> body) @@ regs
               /\ last' = Response("register_valid", body.email, r, 0, OK)
          ELSE /\ last' = Response("register", body.email, r, 0, result)
               /\ UNCHANGED regs
       /\ UNCHANGED <<boards, tasks, comments, nextBoardId, nextTaskId, nextCommentId,
                      accounts, updates>>

\* RegistrationSerializer.create, run by serializer.save() of request r: the INSERT
\* fails on a username that exists (IntegrityError, an unhandled 500); nothing
\* constrains the email column
RegisterSave(r) ==
    /\ r \in DOMAIN regs
    /\ LET body == regs[r]
       IN IF UsernameExists(body.fullname)
          THEN /\ last' = Response("register", body.email, r, 0, ServerError)
               /\ UNCHANGED accounts
          ELSE /\ accounts' = Append(accounts, [email |-> body.email,
                                                username |-> body.fullname])
               /\ last' = Response("register", body.email, r, Len(accounts) + 1, OK)
    /\ regs' = Without(regs, {r})
    /\ UNCHANGED <<boards, tasks, comments, nextBoardId, nextTaskId, nextCommentId, updates>>

(* ======================= requests ======================= *)
(* The handlers above carry no bound.  Each specification below draws the  *)
(* requests from small sets and stops creating rows at its bounds.         *)

Patch == TRUE      \* partial update
Put == FALSE       \* full update

BoardBody(t, h, m) == [title |-> t, hasMembers |-> h, member_ids |-> m]
TaskBody(b, a, r, s) == [board |-> b, assignee |-> a, reviewer |-> r, status |-> s]

StoredMemberLists == {m \in MemberIdLists : MembersValid(m)}

BoardPatches ==
    {BoardBody(t, FALSE, {}) : t \in Titles}
    \cup {BoardBody(Absent, TRUE, m) : m \in MemberIdLists}

BoardPuts ==
    {BoardBody("t2", TRUE, m) : m \in StoredMemberLists}
    \cup {BoardBody(Absent, TRUE, {})}

MemberPatches == {BoardBody(Absent, TRUE, m) : m \in StoredMemberLists}

Assignees == {Null, "B"}
Reviewers == {Null, "A"}

TaskPosts ==
    {TaskBody(b, a, r, "to-do") :
        b \in BoardIds, a \in Assignees \cup {UnknownUser}, r \in Reviewers}

PlainTaskPosts == {TaskBody(b, Null, Null, "to-do") : b \in BoardIds}

TaskPuts ==
    {TaskBody(b, a, r, "done") : b \in BoardIds, a \in Assignees, r \in Reviewers}
    \cup {TaskBody(AbsentId, Null, Null, "done")}

\* PATCH bodies: one field alone, or the board together with one other field
TaskPatches ==
    {TaskBody(b, Absent, Absent, Absent) : b \in BoardIds}
    \cup {TaskBody(b, a, Absent, Absent) : b \in BoardIds \cup {AbsentId}, a \in Assignees}
    \cup {TaskBody(b, Absent, r, Absent) : b \in BoardIds \cup {AbsentId}, r \in Reviewers}
    \cup {TaskBody(b, Absent, Absent, s) : b \in BoardIds \cup {AbsentId}, s \in Statuses}

BoardPatchesOfTask == {TaskBody(b, Absent, Absent, Absent) : b \in BoardIds}

BodyOk == [has |-> TRUE, content |-> <<" ", "o", "k", " ">>]
BodyBlank == [has |-> TRUE, content |-> <<" ", " ">>]
BodyMissing == [has |-> FALSE, content |-> <<>>]
CommentBodies == {BodyOk, BodyBlank, BodyMissing}

(* ---- SpecBoards: every board request; plain tasks and comments ---- *)
NextBoards ==
    \/ \E u \in Users, t \in Titles, m \in MemberIdLists :
          nextBoardId <= MaxBoards /\ BoardCreate(u, t, m)
    \/ \E u \in Users, b \in BoardIds, p \in BoardPatches : BoardUpdate(u, b, Patch, p)
    \/ \E u \in Users, b \in BoardIds, p \in BoardPuts : BoardUpdate(u, b, Put, p)
    \/ \E u \in Users, b \in BoardIds : BoardDelete(u, b)
    \/ \E u \in Users, p \in PlainTaskPosts : nextTaskId <= MaxTasks /\ TaskCreate(u, p)
    \/ \E u \in Users, t \in TaskIds :
          nextCommentId <= MaxComments /\ CommentCreate(u, t, BodyOk)

SpecBoards == Init /\ [][NextBoards]_vars

(* ---- SpecTasks: every task request; boards differ in owner and members ---- *)
BoardCreators == {"A", "B"}

NextTasks ==
    \/ \E u \in BoardCreators, m \in StoredMemberLists :
          nextBoardId <= MaxBoards /\ BoardCreate(u, "t1", m)
    \/ \E u \in Users, b \in BoardIds, p \in MemberPatches : BoardUpdate(u, b, Patch, p)
    \/ \E u \in Users, b \in BoardIds : BoardDelete(u, b)
    \/ \E u \in Users, p \in TaskPosts : nextTaskId <= MaxTasks /\ TaskCreate(u, p)
    \/ \E u \in Users, t \in TaskIds, p \in TaskPatches : TaskUpdate(u, t, Patch, p)
    \/ \E u \in Users, t \in TaskIds, p \in TaskPuts : TaskUpdate(u, t, Put, p)
    \/ \E u \in Users, t \in TaskIds : TaskDelete(u, t)
    \/ \E u \in Users, t \in TaskIds : TaskGet(u, t)

SpecTasks == Init /\ [][NextTasks]_vars

(* ---- SpecCascade: several tasks and comments per board, plain requests ---- *)
NextCascade ==
    \/ \E u \in BoardCreators :
          nextBoardId <= MaxBoards /\ BoardCreate(u, "t1", {"A", "B"})
    \/ \E u \in BoardCreators, b \in BoardIds : BoardDelete(u, b)
    \/ \E u \in BoardCreators, p \in PlainTaskPosts :
          nextTaskId <= MaxCascadeTasks /\ TaskCreate(u, p)
    \/ \E u \in BoardCreators, t \in CascadeTaskIds, p \in BoardPatchesOfTask :
          TaskUpdate(u, t, Patch, p)
    \/ \E u \in BoardCreators, t \in CascadeTaskIds : TaskDelete(u, t)
    \/ \E u \in BoardCreators, t \in CascadeTaskIds, body \in CommentBodies :
          nextCommentId <= MaxCascadeComments /\ CommentCreate(u, t, body)
    \/ \E u \in BoardCreators, t \in CascadeTaskIds, c \in CascadeCommentIds :
          CommentDelete(u, t, c)

SpecCascade == Init /\ [][NextCascade]_vars

(* ---- SpecComments: every comment request on the tasks of one board ---- *)

\* a task without assignee and reviewer, and one with both
RolePosts == {TaskBody(b, Null, Null, "to-do") : b \in BoardIds}
             \cup {TaskBody(b, "B", "A", "to-do") : b \in BoardIds}

\* the PATCH that clears the assignee of a task
ClearAssignee == {TaskBody(b, Null, Absent, Absent) : b \in BoardIds}

NextComments ==
    \/ nextBoardId <= MaxSharedBoards /\ BoardCreate("A", "t1", {"A", "B"})
    \/ \E b \in BoardIds, p \in MemberPatches : BoardUpdate("A", b, Patch, p)
    \/ \E u \in BoardCreators, p \in RolePosts :
          nextTaskId <= MaxCascadeTasks /\ TaskCreate(u, p)
    \/ \E u \in BoardCreators, t \in CascadeTaskIds, p \in ClearAssignee :
          TaskUpdate(u, t, Patch, p)
    \/ \E u \in Users, t \in CascadeTaskIds, body \in CommentBodies :
          nextCommentId <= MaxCascadeComments /\ CommentCreate(u, t, body)
    \/ \E u \in Users, t \in CascadeTaskIds : CommentList(u, t)
    \/ \E u \in Users, t \in CascadeTaskIds, c \in CascadeCommentIds :
          CommentDelete(u, t, c)

SpecComments == Init /\ [][NextComments]_vars

(* ---- SpecRegister: registrations whose is_valid() and save() interleave ---- *)
MaxInFlight == 2
MaxAccounts == 3

Requests == 1..MaxInFlight

Emails == {"e1", "e2"}
Fullnames == {"n1", "n2", "n3"}

RegBody(e, n, p, q) == [email |-> e, fullname |-> n, password |-> p, repeated_password |-> q]

RegBodies ==
    {RegBody(e, n, "p1", q) : e \in Emails, n \in Fullnames, q \in {"p1", "p2"}}
    \cup {RegBody(Absent, "n1", "p1", "p1"), RegBody("e1", Absent, "p1", "p1"),
          RegBody("e1", "n1", "p1", Absent)}

NextRegister ==
    \/ \E r \in Requests, body \in RegBodies :
          Len(accounts) + Cardinality(DOMAIN regs) < MaxAccounts /\ RegisterBegin(r, body)
    \/ \E r \in Requests : RegisterSave(r)

SpecRegister == Init /\ [][NextRegister]_vars

(* ---- SpecConcurrent: full updates of one board whose statements interleave ---- *)
FullBoardPuts == {BoardBody(t, TRUE, m) : t \in Titles, m \in StoredMemberLists}

NextConcurrent ==
    \/ nextBoardId <= MaxSharedBoards /\ BoardCreate("A", "t1", {})
    \/ \E r \in Requests, u \in BoardCreators, b \in BoardIds, p \in FullBoardPuts :
          BoardUpdateBegin(r, u, b, Put, p)
    \/ \E r \in Requests : BoardUpdateSave(r)
    \/ \E r \in Requests : BoardUpdateSetMembers(r)

SpecConcurrent == Init /\ [][NextConcurrent]_vars

(* ======================= properties ======================= *)

IsOwnerOrMember(u, b) ==
    b \in DOMAIN boards /\ (boards[b].owner = u \/ u \in boards[b].members)

\* C1: the board list returned to a user holds a board exactly once when the user
\* is its owner or one of its current members, and not at all otherwise.
C1_BoardListExactlyAccessible ==
    \A u \in Users, b \in BoardIds :
        CopiesIn(b, BoardQueryset(u)) = IF IsOwnerOrMember(u, b) THEN 1 ELSE 0

\* an update by the owner has just left a board whose owner matches two join rows
C1_Witness ==
    /\ last.op = "board_update" /\ last.result = OK
    /\ last.id \in DOMAIN boards
    /\ boards[last.id].owner = last.user
    /\ boards[last.id].members = {"A", "B"}
    /\ CopiesIn(last.id, BoardJoinRows(last.user)) = 2
    /\ \E b \in DOMAIN boards : ~IsOwnerOrMember("B", b)

\* C2: board update and board delete succeed only for the board's owner; any other
\* caller of an existing board gets AccessDenied and boards, tasks and comments stay.
C2_OnlyOwnerWritesBoard ==
    [][last'.op \in {"board_update", "board_delete"} =>
        LET u == last'.user
            b == last'.id
        IN /\ last'.result = OK => (b \in DOMAIN boards /\ boards[b].owner = u)
           /\ (b \in DOMAIN boards /\ boards[b].owner # u) =>
                 /\ last'.result = AccessDenied
                 /\ UNCHANGED <<boards, tasks, comments>>]_vars

\* a member who is not the owner was refused on a board that has a task and a comment
C2_Witness ==
    /\ last.op \in {"board_update", "board_delete"} /\ last.result = AccessDenied
    /\ last.id \in DOMAIN boards
    /\ last.user \in boards[last.id].members
    /\ last.user # boards[last.id].owner
    /\ \E t \in DOMAIN tasks : tasks[t].board = last.id
    /\ \E c \in DOMAIN comments : tasks[comments[c].task].board = last.id

PlainPost(b) == TaskBody(b, Null, Null, "to-do")

\* C3 (as claimed): a task create with no assignee and no reviewer on an existing
\* board succeeds when the caller is the board's owner or a member, and is refused
\* with AccessDenied only when the caller is neither.
C3_OwnerOrMemberCreatesTask ==
    [][\A b \in DOMAIN boards :
          (last'.op = "task_create" /\ last'.id = b /\ TaskCreate(last'.user, PlainPost(b))) =>
             /\ IsOwnerOrMember(last'.user, b) => last'.result = OK
             /\ ~IsOwnerOrMember(last'.user, b) => last'.result = AccessDenied]_vars

HasMemberRoles(t) ==
    LET members == boards[tasks[t].board].members
    IN /\ tasks[t].assignee # Null => tasks[t].assignee \in members
       /\ tasks[t].reviewer # Null => tasks[t].reviewer \in members

\* C4 (as claimed): every task's assignee and reviewer, when set, are in the current
\* member set of the task's board.
C4_RolesAlwaysMembers == \A t \in DOMAIN tasks : HasMemberRoles(t)

\* C4 (amended): a task create or update that sets a task's assignee or reviewer to
\* a user leaves that user in the member set of the board the task then belongs to;
\* a board update changes no task.
C4_RolesAreMembersWhenSet ==
    [][/\ \A t \in DOMAIN tasks' :
             LET new == tasks'[t]
                 members == boards'[new.board].members
                 created == t \notin DOMAIN tasks
             IN /\ ((created \/ tasks[t].assignee # new.assignee) /\ new.assignee # Null)
                      => new.assignee \in members
                /\ ((created \/ tasks[t].reviewer # new.reviewer) /\ new.reviewer # Null)
                      => new.reviewer \in members
       /\ last'.op = "board_update" => tasks' = tasks]_vars

\* the owner replaced the member set and a task of the board keeps its assignee
C4_Witness ==
    /\ last.op = "board_update" /\ last.result = OK
    /\ \E t \in DOMAIN tasks :
          /\ tasks[t].board = last.id
          /\ tasks[t].assignee = "B"
          /\ "B" \notin boards[last.id].members

\* C5: a task create whose assignee or reviewer is a user outside the board's member
\* set (the body being well formed otherwise) is refused with AccessDenied and the
\* persisted tasks are the same afterwards.
C5_NonMemberRoleRefused ==
    [][\A p \in TaskPosts :
          (/\ last'.op = "task_create"
           /\ TaskCreate(last'.user, p)
           /\ p.board \in DOMAIN boards
           /\ p.assignee # UnknownUser /\ p.reviewer # UnknownUser
           /\ \/ p.assignee \in Users \ boards[p.board].members
              \/ p.reviewer \in Users \ boards[p.board].members) =>
             /\ last'.result = AccessDenied
             /\ tasks' = tasks]_vars

\* a member of the board was refused: only the assignee or reviewer can be the cause
C5_Witness ==
    /\ last.op = "task_create" /\ last.result = AccessDenied
    /\ last.id \in DOMAIN boards
    /\ last.user \in boards[last.id].members

ScenarioPost(b) == TaskBody(b, "B", "A", "to-do")
ScenarioTask(b) ==
    [board |-> b, owner |-> "B", assignee |-> "B", reviewer |-> "A", status |-> "to-do"]

IsScenarioCreate(b, members) ==
    /\ last'.op = "task_create" /\ last'.user = "B" /\ last'.id = b
    /\ b \in DOMAIN boards
    /\ boards[b].owner = "A" /\ boards[b].members = members
    /\ TaskCreate("B", ScenarioPost(b))

\* C6 (as claimed): on a board owned by A with member set {B}, B's task create with
\* assignee B and reviewer A succeeds.
C6_ScenarioAsWritten ==
    [][\A b \in BoardIds : IsScenarioCreate(b, {"B"}) => last'.result = OK]_vars

\* C6 (amended): with member set {B} that create is refused with AccessDenied and
\* persists nothing, A not being a member; with member set {A, B} it succeeds and
\* persists a task owned by B, and a get of such a task by C is refused.
C6_ScenarioWithReviewerMember ==
    [][/\ \A b \in BoardIds :
             /\ IsScenarioCreate(b, {"B"}) =>
                   (last'.result = AccessDenied /\ tasks' = tasks)
             /\ IsScenarioCreate(b, {"A", "B"}) =>
                   /\ last'.result = OK
                   /\ DOMAIN tasks' = DOMAIN tasks \cup {last'.sub}
                   /\ last'.sub \notin DOMAIN tasks
                   /\ tasks'[last'.sub] = ScenarioTask(b)
       /\ (/\ last'.op = "task_get" /\ last'.user = "C"
           /\ last'.id \in DOMAIN tasks
           /\ tasks[last'.id] = ScenarioTask(tasks[last'.id].board)) =>
             last'.result = AccessDenied]_vars

\* C was refused the task that B created with assignee B and reviewer A
C6_Witness ==
    /\ last.op = "task_get" /\ last.user = "C" /\ last.result = AccessDenied
    /\ last.id \in DOMAIN tasks
    /\ tasks[last.id] = ScenarioTask(tasks[last.id].board)
    /\ boards[tasks[last.id].board].owner = "A"
    /\ boards[tasks[last.id].board].members = {"A", "B"}

HoldsRole(u, t) ==
    t \in DOMAIN tasks /\ u \in {tasks[t].owner, tasks[t].assignee, tasks[t].reviewer}

TaskAccess(u, t) ==
    IF t \notin DOMAIN tasks THEN NotFound
    ELSE IF HoldsRole(u, t) THEN OK
    ELSE AccessDenied

C7_ListExactlyRoles ==
    \A u \in Users, t \in TaskIds :
        CopiesIn(t, TaskQueryset(u)) = IF HoldsRole(u, t) THEN 1 ELSE 0

C7_GetAndDeleteByRole ==
    [][last'.op \in {"task_get", "task_delete"} =>
          /\ last'.result = TaskAccess(last'.user, last'.id)
          /\ tasks' = IF last'.op = "task_delete" /\ last'.result = OK
                      THEN [t \in DOMAIN tasks \ {last'.id} |-> tasks[t]]
                      ELSE tasks]_vars

\* C7: task get and task delete succeed exactly for the task's owner, assignee or
\* reviewer; another caller gets AccessDenied and the task stays; an absent id gives
\* NotFound; the task list of a user holds exactly the tasks the user has a role in,
\* each once.
C7_TaskAccessByRole == []C7_ListExactlyRoles /\ C7_GetAndDeleteByRole

\* the board's owner, holding no role in the task, was refused its deletion
C7_Witness ==
    /\ last.op = "task_delete" /\ last.result = AccessDenied
    /\ last.id \in DOMAIN tasks
    /\ last.user = boards[tasks[last.id].board].owner
    /\ tasks[last.id].owner = "B" /\ tasks[last.id].assignee = "B"

\* C8 (as claimed): a full update that keeps the task's board and clears assignee
\* and reviewer is accepted exactly when the caller may get the task.
C8_UpdateIffGet ==
    [][\A t \in DOMAIN tasks :
          (/\ last'.op = "task_update" /\ last'.id = t
           /\ TaskUpdate(last'.user, t, Put, TaskBody(tasks[t].board, Null, Null, "done"))) =>
             (last'.result = OK <=> TaskGetResult(last'.user, t) = OK)]_vars

\* C9 (as claimed): no task update changes the board or the owner of a task.
C9_BoardAndOwnerFixed ==
    [][last'.op = "task_update" =>
          \A t \in DOMAIN tasks :
              /\ t \in DOMAIN tasks'
              /\ tasks'[t].board = tasks[t].board
              /\ tasks'[t].owner = tasks[t].owner]_vars

C10_References ==
    /\ \A t \in DOMAIN tasks : tasks[t].board \in DOMAIN boards
    /\ \A c \in DOMAIN comments : comments[c].task \in DOMAIN tasks

C10_DeleteCascades ==
    [][(last'.op = "board_delete" /\ last'.result = OK) =>
          LET b == last'.id
              keptTasks == {t \in DOMAIN tasks : tasks[t].board # b}
              keptComments == {c \in DOMAIN comments : tasks[comments[c].task].board # b}
          IN /\ b \in DOMAIN boards /\ b \notin DOMAIN boards'
             /\ tasks' = [t \in keptTasks |-> tasks[t]]
             /\ comments' = [c \in keptComments |-> comments[c]]]_vars

\* C10: a board delete removes exactly the board's tasks and their comments and
\* keeps those of the other boards; every task refers to an existing board and every
\* comment to an existing task.
C10_CascadeComplete == []C10_References /\ C10_DeleteCascades

\* a board was deleted with its task and comment while another board's task and
\* comment are still there
C10_Witness ==
    /\ last.op = "board_delete" /\ last.result = OK
    /\ nextTaskId = 3 /\ Cardinality(DOMAIN tasks) = 1
    /\ nextCommentId = 3 /\ Cardinality(DOMAIN comments) = 1
    /\ \A t \in DOMAIN tasks : tasks[t].board # last.id

\* C11 (as claimed): when a board delete that succeeded is followed by a delete of
\* the same board id by the same caller, the second call fails with NotFound and
\* changes neither boards nor tasks nor comments.
C11_SecondDeleteNotFound ==
    [][(/\ last.op = "board_delete" /\ last.result = OK
        /\ last'.op = "board_delete" /\ last'.id = last.id /\ last'.user = last.user)
          => /\ last'.result = NotFound
             /\ UNCHANGED <<boards, tasks, comments>>]_vars

\* C17 (as claimed): a PATCH by a role holder that carries no board is measured
\* against the board the task already belongs to: a new assignee or reviewer is
\* accepted when it is null or in that board's member set and refused with
\* AccessDenied (task unchanged) otherwise, and a PATCH of the status alone
\* succeeds and changes the status only.
C17_PatchAgainstOwnBoard ==
    [][\A t \in DOMAIN tasks :
          (/\ last'.op = "task_update" /\ last'.id = t
           /\ HasTaskRole(last'.user, tasks[t])) =>
             LET u == last'.user
                 members == boards[tasks[t].board].members
                 allowed(x) == x = Null \/ x \in members
             IN /\ \A s \in Statuses :
                      TaskUpdate(u, t, Patch, TaskBody(AbsentId, Absent, Absent, s)) =>
                          /\ last'.result = OK
                          /\ tasks' = [tasks EXCEPT ![t].status = s]
                /\ \A a \in Assignees :
                      TaskUpdate(u, t, Patch, TaskBody(AbsentId, a, Absent, Absent)) =>
                          IF allowed(a)
                          THEN /\ last'.result = OK
                               /\ tasks' = [tasks EXCEPT ![t].assignee = a]
                          ELSE last'.result = AccessDenied /\ tasks' = tasks
                /\ \A r \in Reviewers :
                      TaskUpdate(u, t, Patch, TaskBody(AbsentId, Absent, r, Absent)) =>
                          IF allowed(r)
                          THEN /\ last'.result = OK
                               /\ tasks' = [tasks EXCEPT ![t].reviewer = r]
                          ELSE last'.result = AccessDenied /\ tasks' = tasks]_vars

\* C18: a successful board update is made by the owner; with a member id list in
\* the body the board's member set afterwards is exactly that list, without one it
\* is unchanged; the board's owner, the other boards and all tasks are unchanged; a
\* board appears only by a board create, under a fresh id and owned by the caller,
\* and no request ever changes the owner of a board.
C18_ReplaceAndFrame ==
    [][/\ (last'.op = "board_update" /\ last'.result = OK) =>
            LET b == last'.id
                u == last'.user
            IN /\ b \in DOMAIN boards /\ boards[b].owner = u
               /\ DOMAIN boards' = DOMAIN boards
               /\ \A partial \in {Patch, Put}, p \in BoardPatches \cup BoardPuts :
                     BoardUpdate(u, b, partial, p) =>
                        boards'[b].members = IF p.hasMembers THEN p.member_ids
                                             ELSE boards[b].members
               /\ \A x \in DOMAIN boards \ {b} : boards'[x] = boards[x]
               /\ tasks' = tasks
       /\ \A b \in DOMAIN boards \cap DOMAIN boards' : boards'[b].owner = boards[b].owner
       /\ \A b \in DOMAIN boards' \ DOMAIN boards :
             /\ last'.op = "board_create" /\ last'.id = b
             /\ b = nextBoardId
             /\ boards'[b].owner = last'.user]_vars

\* an update by the owner has emptied the member set of a board that holds a task,
\* whose creator was therefore a member before
C18_Witness ==
    /\ last.op = "board_update" /\ last.result = OK
    /\ last.id \in DOMAIN boards
    /\ boards[last.id].owner = last.user
    /\ boards[last.id].members = {}
    /\ \E t \in DOMAIN tasks : tasks[t].board = last.id

HasContent(body) == body.has /\ Strip(body.content) # <<>>

C12_StoredComments ==
    \A c \in DOMAIN comments :
        /\ Strip(comments[c].content) # <<>>
        /\ comments[c].author \in Users

C12_CreateOutcome ==
    [][/\ (last'.op = "comment_create" /\ last'.id \in DOMAIN tasks) =>
            LET u == last'.user
                t == last'.id
                c == last'.sub
            IN \A body \in CommentBodies :
                  CommentCreate(u, t, body) =>
                     /\ last'.result = IF ~HasContent(body) THEN InvalidInput
                                        ELSE IF ~HasTaskRole(u, tasks[t]) THEN AccessDenied
                                        ELSE OK
                     /\ IF last'.result = OK
                        THEN /\ c \notin DOMAIN comments
                             /\ DOMAIN comments' = DOMAIN comments \cup {c}
                             /\ comments'[c].author = u /\ comments'[c].task = t
                             /\ \A d \in DOMAIN comments : comments'[d] = comments[d]
                        ELSE comments' = comments
       /\ \A c \in DOMAIN comments' \ DOMAIN comments :
             /\ last'.op = "comment_create" /\ last'.result = OK /\ last'.sub = c
             /\ HasTaskRole(comments'[c].author, tasks[comments'[c].task])]_vars

\* C12: a comment create on an existing task gives InvalidInput when the content is
\* missing or blank after trimming, AccessDenied when the content is fine and the
\* caller holds no role in the task, and otherwise succeeds and stores exactly one
\* comment, on that task and authored by the caller; a refused call stores none; a
\* comment appears in no other way, so every stored comment has non-blank content
\* and an author who held a role in its task when it was posted.
C12_CommentCreate == []C12_StoredComments /\ C12_CreateOutcome

\* the reviewer of a task, who is not its owner, has posted " ok " and "ok" is stored
C12_Witness ==
    /\ last.op = "comment_create" /\ last.result = OK
    /\ last.sub \in DOMAIN comments
    /\ comments[last.sub].author = last.user
    /\ comments[last.sub].content = <<"o", "k">>
    /\ tasks[last.id].reviewer = last.user /\ tasks[last.id].owner # last.user

\* C13 (as claimed): a comment list of an existing task succeeds for its owner,
\* assignee and reviewer, also when the task has no comment yet, and returns exactly
\* the task's comments, earlier before later; another caller gets AccessDenied and
\* an absent task NotFound.
C13_ListByRoleInOrder ==
    [][last'.op = "comment_list" =>
          LET u == last'.user
              t == last'.id
              body == CommentListBody(u, t)
          IN /\ last'.result = IF t \notin DOMAIN tasks THEN NotFound
                               ELSE IF HasTaskRole(u, tasks[t]) THEN OK
                               ELSE AccessDenied
             /\ last'.result = OK =>
                   /\ {body[i] : i \in DOMAIN body}
                         = {c \in DOMAIN comments : comments[c].task = t}
                   /\ \A i, j \in DOMAIN body : i < j => body[i] < body[j]]_vars

DeleteAllowed(u, t, c) == comments[c].author = u \/ tasks[t].owner = u

C15_NoSharedEmail ==
    \A i, j \in DOMAIN accounts : i # j => accounts[i].email # accounts[j].email

\* C16 (as claimed): once all the overlapping full updates of a board are done, its
\* title and its member set are those of one and the same request.
C16_UpdateAtomic ==
    \A b \in DOMAIN boards :
        LET mine == {r \in DOMAIN updates : updates[r].board = b}
        IN (mine # {} /\ \A r \in mine : updates[r].pc = "done") =>
              \E r \in mine : /\ boards[b].title = updates[r].body.title
                              /\ boards[b].members = updates[r].body.member_ids
====
